---- MODULE Spec2Model ----
(***************************************************************************)
(* State-machine model of ESPAsyncTCP.cpp: the AsyncClient connection      *)
(* object driven by the lwIP raw API.  The objects' fields are the state,  *)
(* every public method and every lwIP callback is one action, and the      *)
(* transport (the tcp_pcb handles and the calls made on them) is the       *)
(* environment.                                                            *)
(*                                                                         *)
(* A method is an operator from a "world" to a world: the record           *)
(*   [c |-> the objects, p |-> the handles, dns |-> pending resolutions,   *)
(*    out |-> what the step has done so far, ret |-> the value returned,   *)
(*    f |-> how the transport answers during this step]                    *)
(* so that a method that calls another method, or an application handler   *)
(* that calls back into the object, is the composition of the operators.   *)
(***************************************************************************)
EXTENDS Integers, Sequences, FiniteSets, TLC

(***************************************************************************)
(* Bounds of the model.                                                    *)
(***************************************************************************)
MaxHandles  == 2     \* tcp_pcb handles the transport can allocate
MaxAdvances == 2     \* clock advances of AdvanceStep milliseconds
MaxBacklog  == 40    \* cap on _rx_ack_len for accepting a further delivery
MaxChain    == 2     \* pbufs chained in one delivery
MaxDns      == 1     \* name resolutions pending for one object
RcvWnd      == 120   \* receive window of a handle (lwIP TCP_WND)
SndBuf      == 100   \* free send window of a new handle (lwIP TCP_SND_BUF)

(***************************************************************************)
(* Program constants.                                                      *)
(***************************************************************************)
NULL        == 0     \* absent handle / unset handler
ERR_OK      == 0
ERR_MEM     == -1
ERR_ABRT    == -8
ERR_RST     == -9
ERR_DNS     == -55   \* the code _dns_found reports
CLOSED      == 0     \* tcp_pcb state numbers, as stateToString names them
SYN_SENT    == 2
ESTABLISHED == 4
CLOSE_WAIT  == 7
MsPerSec    == 1000  \* _rx_since_timeout * 1000

\* size_t and uint32_t arithmetic is unsigned and wraps.  The modulus here is
\* 2^30, which 32-bit signed integers can hold; every value of the model
\* stays far below it and only what wraps below zero is reduced.
Wrap(x) == x % (2 ^ 30)

Handle == 1 .. MaxHandles
Obj    == {1, 2}

AdvanceStep == MsPerSec   \* the clock moves in steps of one second
AckTimeouts == {0, 1000}     \* values given to setAckTimeout
RxTimeouts  == {0, 1}        \* values given to setRxTimeout (seconds)
RxAckLenInit == {0, 15}      \* _rx_ack_len is not initialised by the constructor
SegLens     == {40}          \* payload length of one pbuf
AckLens     == {0, 25, 40}   \* arguments the application gives to ack
WriteSizes  == {0, 50, 250}  \* sizes the application gives to write
SentLens    == {50, 100}     \* lengths the transport confirms as sent
ErrCodes    == {ERR_ABRT, ERR_RST}
Ports       == {80}

AllCb == {"onConnect", "onDisconnect", "onAck", "onError", "onData",
          "onTimeout", "onPoll"}
\* _poll_cb is not initialised by the constructor either: without onPoll set
\* the slot holds an indeterminate pointer, non-null ("wild") or null.
CbConfigs == { AllCb,
               (AllCb \ {"onError", "onPoll"}) \cup {"wild"},
               AllCb \ {"onDisconnect", "onData", "onPoll"} }

\* What an onData handler does before it returns.
HandlerCalls == {"none", "ackLater", "ack0", "ack25", "closeNow", "closeLater"}

VARIABLES client, pcbs, dns, now, out, server, rcvd

vars == <<client, pcbs, dns, now, out, server, rcvd>>

(***************************************************************************)
(* The step's transcript: the call that started it, the transport          *)
(* operations issued and the application handlers invoked, in order, and   *)
(* the value returned.                                                     *)
(***************************************************************************)
E(k, n, o, x, y) == [k |-> k, n |-> n, o |-> o, x |-> x, y |-> y]

Emit(w, e) == [w EXCEPT !.out = Append(@, e)]

Ret(w, v) == [w EXCEPT !.ret = v]

B2N(b) == IF b THEN 1 ELSE 0

millis == now

FreePcb == [alloc |-> FALSE, state |-> CLOSED, arg |-> NULL, cb |-> {},
            snd_buf |-> 0, unsent |-> 0]

\* How the transport answers during one step: whether a route exists, whether
\* tcp_new, tcp_write, tcp_output and tcp_close succeed, and whether tcp_abort
\* reports ERR_ABRT through the error callback registered on the handle (lwIP
\* does so from tcp_abandon; the source does not rely on it).
AllOk == [route |-> TRUE, alloc |-> TRUE, write |-> TRUE, output |-> TRUE,
          close |-> TRUE, abrt_cb |-> FALSE]

World(f) == [c |-> client, p |-> pcbs, dns |-> dns, srv |-> server,
             rcvd |-> rcvd, out |-> <<>>, ret |-> 0, f |-> f]

Live(w, h) == h \in Handle /\ w.p[h].alloc

(***************************************************************************)
(* The transport's primitives.  A call on an absent or freed handle is     *)
(* recorded and changes nothing in the model.                              *)
(***************************************************************************)
tcp_arg(w, h, o) ==
  IF Live(w, h) THEN [w EXCEPT !.p[h].arg = o] ELSE w

tcp_callback(w, h, name, on) ==
  IF Live(w, h)
  THEN [w EXCEPT !.p[h].cb = IF on THEN @ \cup {name} ELSE @ \ {name}]
  ELSE w

\* The receive window's account of a handle: what the handle has delivered
\* and tcp_recved has not yet given back.  Once more has been given back than
\* was delivered, overacked says so for the rest of the handle's life and the
\* count is kept no longer.  rcvd holds the accounts that are kept, one for
\* each handle in its domain.
NewAccount == [unacked |-> 0, overacked |-> FALSE]

tcp_new(w) ==
  IF w.f.alloc /\ \E h \in Handle : ~w.p[h].alloc
  THEN LET h == CHOOSE x \in Handle :
                  ~w.p[x].alloc /\ \A y \in Handle : ~w.p[y].alloc => x <= y
           w1 == IF h \in DOMAIN w.rcvd
                 THEN [w EXCEPT !.rcvd[h] = NewAccount] ELSE w
       IN  Ret([w1 EXCEPT !.p[h] = [FreePcb EXCEPT !.alloc = TRUE,
                                                   !.snd_buf = SndBuf]], h)
  ELSE Ret(w, NULL)

tcp_connect(w, h) ==
  Emit(IF Live(w, h) THEN [w EXCEPT !.p[h].state = SYN_SENT] ELSE w,
       E("op", "tcp_connect", h, 0, 0))

Accounted(w, h) == h \in DOMAIN w.rcvd /\ Live(w, h) /\ ~w.rcvd[h].overacked

tcp_recved(w, h, len) ==
  LET w1 == Emit(w, E("op", "tcp_recved", h, len, 0))
  IN  IF ~Accounted(w, h) THEN w1
      ELSE IF len > w.rcvd[h].unacked
      THEN [w1 EXCEPT !.rcvd[h] = [unacked |-> 0, overacked |-> TRUE]]
      ELSE [w1 EXCEPT !.rcvd[h].unacked = @ - len]

\* lwIP takes len bytes off the receive window before it hands them over.
tcp_deliver(w, h, len) ==
  IF Accounted(w, h) THEN [w EXCEPT !.rcvd[h].unacked = @ + len] ELSE w

tcp_write(w, h, len) ==
  LET w1 == Emit(w, E("op", "tcp_write", h, len, B2N(w.f.write)))
  IN  IF w.f.write /\ Live(w, h)
      THEN Ret([w1 EXCEPT !.p[h].snd_buf = @ - len,
                          !.p[h].unsent = @ + len], ERR_OK)
      ELSE Ret(w1, ERR_MEM)

tcp_output(w, h) ==
  LET w1 == Emit(w, E("op", "tcp_output", h, 0, B2N(w.f.output)))
  IN  IF w.f.output
      THEN Ret(IF Live(w, h) THEN [w1 EXCEPT !.p[h].unsent = 0] ELSE w1, ERR_OK)
      ELSE Ret(w1, ERR_MEM)

tcp_close(w, h) ==
  LET w1 == Emit(w, E("op", "tcp_close", h, 0, B2N(w.f.close)))
  IN  IF w.f.close
      THEN Ret(IF Live(w, h) THEN [w1 EXCEPT !.p[h] = FreePcb] ELSE w1, ERR_OK)
      ELSE Ret(w1, ERR_MEM)

tcp_sndbuf(w, h) == IF h \in Handle THEN w.p[h].snd_buf ELSE 0

(***************************************************************************)
(* Invoking an application handler: nothing happens when the slot is       *)
(* unset.                                                                  *)
(***************************************************************************)
Callback(w, o, name, x, y) ==
  IF name \in w.c[o].cbs THEN Emit(w, E("cb", name, o, x, y)) ELSE w

\* _poll_cb: set, unset, or the indeterminate value the constructor left.
PollCallback(w, o) ==
  IF "onPoll" \in w.c[o].cbs THEN Emit(w, E("cb", "onPoll", o, 0, 0))
  ELSE IF "wild" \in w.c[o].cbs THEN Emit(w, E("cb", "wild", o, 0, 0))
  ELSE w

Deregister(w, h) ==
  tcp_callback(tcp_callback(tcp_callback(tcp_callback(
    tcp_arg(w, h, NULL), h, "sent", FALSE), h, "recv", FALSE),
    h, "err", FALSE), h, "poll", FALSE)

\* _error with the two notifications in the other order
_error_swapped(w, o, err) ==
  LET h  == w.c[o]._pcb
      w1 == IF h # NULL
            THEN [Deregister(w, h) EXCEPT !.c[o]._pcb = NULL]
            ELSE w
  IN  Callback(Callback(w1, o, "onDisconnect", 0, 0), o, "onError", err, 0)

\* AsyncClient::_error
_error(w, o, err) ==
  LET h  == w.c[o]._pcb
      w1 == IF h # NULL
            THEN [Deregister(w, h) EXCEPT !.c[o]._pcb = NULL]
            ELSE w
  IN  Callback(Callback(w1, o, "onError", err, 0), o, "onDisconnect", 0, 0)

tcp_abort(w, h) ==
  LET w1 == Emit(w, E("op", "tcp_abort", h, 0, 0))
      o  == IF Live(w, h) THEN w.p[h].arg ELSE NULL
      w2 == IF Live(w, h) THEN [w1 EXCEPT !.p[h] = FreePcb] ELSE w1
  IN  IF w.f.abrt_cb /\ o # NULL /\ "err" \in w.p[h].cb /\ w.c[o].alive
      THEN _error(w2, o, ERR_ABRT)
      ELSE w2

(***************************************************************************)
(* AsyncClient                                                             *)
(***************************************************************************)
\* AsyncClient::AsyncClient(tcp_pcb* pcb), the fields it sets; rx0, cbs, ackT
\* and rxT are the indeterminate _rx_ack_len and the configuration the
\* application applies right after construction.
NewClient(h, rx0, cbs, ackT, rxT) ==
  [alive |-> TRUE, _pcb |-> h, _pcb_busy |-> FALSE, _pcb_sent_at |-> 0,
   _close_pcb |-> FALSE, _ack_pcb |-> TRUE, _rx_ack_len |-> rx0,
   _rx_last_packet |-> 0, _rx_since_timeout |-> rxT, _ack_timeout |-> ackT,
   _connect_port |-> 0, cbs |-> cbs]

NoClient == [NewClient(NULL, 0, {}, 0, 0) EXCEPT !.alive = FALSE]

space(w, o) ==
  LET h == w.c[o]._pcb
  IN  IF h # NULL /\ w.p[h].state = ESTABLISHED THEN w.p[h].snd_buf ELSE 0

\* canSend true whatever the free window
canSend_anyroom(w, o) == space(w, o) >= 0

canSend(w, o) == space(w, o) > 0

\* AsyncClient::state
state(w, o) ==
  LET h == w.c[o]._pcb
  IN  IF h = NULL THEN CLOSED ELSE w.p[h].state

abort(w, o) ==
  LET h == w.c[o]._pcb
  IN  Ret(IF h # NULL
          THEN [tcp_abort(w, h) EXCEPT !.c[o]._pcb = NULL]
          ELSE w,
          ERR_ABRT)

\* _close calling the connect handler, which has the type of the disconnect
\* handler, in its place
_close_wrongcb(w, o) ==
  LET h == w.c[o]._pcb
  IN  IF h # NULL
      THEN LET w1 == tcp_close(Deregister(w, h), h)
               w2 == IF w1.ret # ERR_OK THEN abort(w1, o) ELSE w1
               w3 == [w2 EXCEPT !.c[o]._pcb = NULL]
           IN  Ret(Callback(w3, o, "onConnect", 0, 0), w2.ret)
      ELSE Ret(w, ERR_OK)

\* AsyncClient::_close
_close(w, o) ==
  LET h == w.c[o]._pcb
  IN  IF h # NULL
      THEN LET w1 == tcp_close(Deregister(w, h), h)
               w2 == IF w1.ret # ERR_OK THEN abort(w1, o) ELSE w1
               w3 == [w2 EXCEPT !.c[o]._pcb = NULL]
           IN  Ret(Callback(w3, o, "onDisconnect", 0, 0), w2.ret)
      ELSE Ret(w, ERR_OK)


\* AsyncClient::connect(IPAddress ip, uint16_t port)
connect(w, o) ==
  IF w.c[o]._pcb # NULL THEN Ret(w, B2N(FALSE))
  ELSE IF ~w.f.route THEN Ret(w, B2N(FALSE))
  ELSE LET w1 == tcp_new(w)
           h  == w1.ret
       IN  IF h = NULL THEN Ret(w1, B2N(FALSE))
           ELSE Ret(tcp_connect(tcp_callback(tcp_arg(w1, h, o), h, "err", TRUE),
                                h),
                    B2N(TRUE))

\* AsyncClient::connect(const char* host, uint16_t port); r is what
\* dns_gethostbyname answers.
connectHost(w, o, port, r) ==
  IF r = "ERR_OK" THEN connect(w, o)
  ELSE IF r = "ERR_INPROGRESS"
  THEN Ret([w EXCEPT !.c[o]._connect_port = port, !.dns[o] = @ + 1],
           B2N(TRUE))
  ELSE Ret(w, B2N(FALSE))

\* AsyncClient::operator=(const AsyncClient& other)
Assign(w, o, other) ==
  LET w1 == IF w.c[o]._pcb # NULL THEN _close(w, o) ELSE w
      h  == w1.c[other]._pcb
      w2 == [w1 EXCEPT !.c[o]._pcb = h]
  IN  IF h # NULL
      THEN tcp_callback(tcp_callback(tcp_callback(tcp_callback(
             tcp_arg(w2, h, o), h, "recv", TRUE), h, "sent", TRUE),
             h, "err", TRUE), h, "poll", TRUE)
      ELSE w2

\* AsyncClient::close(bool now)
close(w, o, immediate) ==
  LET w1 == tcp_recved(w, w.c[o]._pcb, w.c[o]._rx_ack_len)
  IN  IF immediate
      THEN _close(w1, o)
      ELSE [w1 EXCEPT !.c[o]._close_pcb = TRUE]

\* write handing the whole request to the transport whatever the window
write_unclamped(w, o, size) ==
  LET h == w.c[o]._pcb
  IN  IF h = NULL \/ size = 0 THEN Ret(w, 0)
      ELSE IF ~canSend(w, o) THEN Ret(w, 0)
      ELSE
        LET w1 == tcp_write(w, h, size)
        IN  IF w1.ret # ERR_OK THEN Ret(w1, 0)
            ELSE
              LET w2 == tcp_output(w1, h)
              IN  IF w2.ret # ERR_OK THEN Ret(w2, 0)
                  ELSE Ret([w2 EXCEPT !.c[o]._pcb_sent_at = millis,
                                      !.c[o]._pcb_busy = TRUE], size)

\* AsyncClient::write(const char* data, size_t size), data not NULL
RECURSIVE write(_, _, _)
write(w, o, size) ==
  LET h == w.c[o]._pcb
  IN  IF h = NULL \/ size = 0 THEN Ret(w, 0)
      ELSE IF ~canSend(w, o) THEN Ret(w, 0)
      ELSE
        LET room      == tcp_sndbuf(w, h)
            will_send == IF room < size THEN room ELSE size
            w1        == tcp_write(w, h, will_send)
        IN  IF w1.ret # ERR_OK THEN Ret(w1, 0)
            ELSE
              LET w2 == tcp_output(w1, h)
              IN  IF w2.ret # ERR_OK THEN Ret(w2, 0)
                  ELSE
                    LET w3 == [w2 EXCEPT !.c[o]._pcb_sent_at = millis,
                                         !.c[o]._pcb_busy = TRUE]
                    IN  IF will_send < size
                        THEN LET w4 == write(w3, o, size - will_send)
                             IN  Ret(w4, Wrap(will_send + w4.ret))
                        ELSE Ret(w3, size)

\* AsyncClient::add; nonnull tells whether data is a pointer to something.
add(w, o, size, nonnull) ==
  LET h == w.c[o]._pcb
  IN  IF h = NULL \/ size = 0 \/ ~nonnull THEN Ret(w, 0)
      ELSE
        LET room == tcp_sndbuf(w, h)
        IN  IF room = 0 THEN Ret(w, 0)
            ELSE
              LET will_send == IF room < size THEN room ELSE size
                  w1        == tcp_write(w, h, will_send)
              IN  IF w1.ret # ERR_OK THEN Ret(w1, 0) ELSE Ret(w1, will_send)

\* AsyncClient::send
send(w, o) ==
  IF ~canSend(w, o) THEN Ret(w, B2N(FALSE))
  ELSE
    LET w1 == tcp_output(w, w.c[o]._pcb)
    IN  IF w1.ret = ERR_OK
        THEN Ret([w1 EXCEPT !.c[o]._pcb_busy = TRUE,
                            !.c[o]._pcb_sent_at = millis], B2N(TRUE))
        ELSE Ret(w1, B2N(FALSE))

\* ack without the clamp to the backlog
ack_noclamp(w, o, n) ==
  LET w1 == IF n # 0 THEN tcp_recved(w, w.c[o]._pcb, n) ELSE w
  IN  Ret([w1 EXCEPT !.c[o]._rx_ack_len = Wrap(@ - n)], n)

\* AsyncClient::ack(size_t len)
ack(w, o, n) ==
  LET len == IF n > w.c[o]._rx_ack_len THEN w.c[o]._rx_ack_len ELSE n
      w1  == IF len # 0 THEN tcp_recved(w, w.c[o]._pcb, len) ELSE w
  IN  Ret([w1 EXCEPT !.c[o]._rx_ack_len = Wrap(@ - len)], len)

\* The handler's opt-out of the automatic acknowledgment: it clears the
\* per-delivery flag that _recv sets before the handler and reads after it.
ackLater(w, o) == [w EXCEPT !.c[o]._ack_pcb = FALSE]

\* AsyncClient::_connected
_connected(w, o, h) ==
  LET w1 == [w EXCEPT !.c[o]._pcb = h]
      w2 == IF h # NULL
            THEN [tcp_callback(tcp_callback(tcp_callback(w1, h, "recv", TRUE),
                    h, "sent", TRUE), h, "poll", TRUE)
                  EXCEPT !.c[o]._pcb_busy = FALSE]
            ELSE w1
  IN  Ret(Callback(w2, o, "onConnect", 0, 0), ERR_OK)

\* AsyncClient::_sent
_sent(w, o, len) ==
  LET w1 == [w EXCEPT !.c[o]._rx_last_packet = millis,
                      !.c[o]._pcb_busy = FALSE]
  IN  Ret(Callback(w1, o, "onAck", len, Wrap(millis - w.c[o]._pcb_sent_at)),
          ERR_OK)

\* A call the application makes from inside its onData handler, with the
\* call and its return recorded.
AppCall(w, o, call) ==
  LET enter(n, x) == Emit(w, E("call", n, o, x, 0))
      back(w1, n) == Emit(w1, E("ret", n, o, w1.ret, 0))
  IN  CASE call = "none"       -> w
        [] call = "ackLater"   -> back(Ret(ackLater(enter("ackLater", 0), o), 0),
                                       "ackLater")
        [] call = "ack0"       -> back(ack(enter("ack", 0), o, 0), "ack")
        [] call = "ack25"      -> back(ack(enter("ack", 25), o, 25), "ack")
        [] call = "closeNow"   -> back(Ret(close(enter("close", 1), o, TRUE), 0),
                                       "close")
        [] call = "closeLater" -> back(Ret(close(enter("close", 0), o, FALSE), 0),
                                       "close")

\* The loop of _recv acknowledging every pbuf, opted out or not
RECURSIVE RecvLoop_ackall(_, _, _, _)
RecvLoop_ackall(w, o, pcb, pb) ==
  IF pb = <<>> THEN w
  ELSE
    LET b  == Head(pb)
        w1 == [w EXCEPT !.c[o]._ack_pcb = TRUE]
        w2 == IF "onData" \in w1.c[o].cbs
              THEN AppCall(Emit(w1, E("cb", "onData", o, b.len, 0)), o, b.call)
              ELSE w1
    IN  RecvLoop_ackall(tcp_recved(w2, pcb, b.len), o, pcb, Tail(pb))

\* The loop of AsyncClient::_recv over the chained pbufs; pb is the chain, each
\* pbuf with its length and with what the handler does when it gets it.
RECURSIVE RecvLoop(_, _, _, _)
RecvLoop(w, o, pcb, pb) ==
  IF pb = <<>> THEN w
  ELSE
    LET b  == Head(pb)
        w1 == [w EXCEPT !.c[o]._ack_pcb = TRUE]
        w2 == IF "onData" \in w1.c[o].cbs
              THEN AppCall(Emit(w1, E("cb", "onData", o, b.len, 0)), o, b.call)
              ELSE w1
        w3 == IF ~w2.c[o]._ack_pcb
              THEN [w2 EXCEPT !.c[o]._rx_ack_len = Wrap(@ + b.len)]
              ELSE tcp_recved(w2, pcb, b.len)
    IN  RecvLoop(w3, o, pcb, Tail(pb))

\* AsyncClient::_recv
_recv(w, o, pcb, pb) ==
  IF pb = <<>> THEN _close(w, o)
  ELSE Ret(RecvLoop([w EXCEPT !.c[o]._rx_last_packet = millis], o, pcb, pb),
           ERR_OK)

\* _poll reporting the ack timeout without clearing _pcb_busy
_poll_keepbusy(w, o) ==
  IF w.c[o]._close_pcb
  THEN Ret(_close([w EXCEPT !.c[o]._close_pcb = FALSE], o), ERR_OK)
  ELSE
    LET c       == w.c[o]
        elapsed == Wrap(millis - c._pcb_sent_at)
    IN  IF c._pcb_busy /\ c._ack_timeout # 0 /\ elapsed >= c._ack_timeout
        THEN Ret(Callback(w, o, "onTimeout", elapsed, 0), ERR_OK)
        ELSE IF c._rx_since_timeout # 0
                /\ Wrap(millis - c._rx_last_packet)
                     >= Wrap(c._rx_since_timeout * MsPerSec)
        THEN Ret(_close(w, o), ERR_OK)
        ELSE Ret(PollCallback(w, o), ERR_OK)

\* _poll closing only when the idle time is more than the timeout
_poll_idle_gt(w, o) ==
  IF w.c[o]._close_pcb
  THEN Ret(_close([w EXCEPT !.c[o]._close_pcb = FALSE], o), ERR_OK)
  ELSE
    LET c       == w.c[o]
        elapsed == Wrap(millis - c._pcb_sent_at)
    IN  IF c._pcb_busy /\ c._ack_timeout # 0 /\ elapsed >= c._ack_timeout
        THEN Ret(Callback([w EXCEPT !.c[o]._pcb_busy = FALSE], o,
                          "onTimeout", elapsed, 0), ERR_OK)
        ELSE IF c._rx_since_timeout # 0
                /\ Wrap(millis - c._rx_last_packet)
                     > Wrap(c._rx_since_timeout * MsPerSec)
        THEN Ret(_close(w, o), ERR_OK)
        ELSE Ret(PollCallback(w, o), ERR_OK)

\* _poll dropping a requested close instead of performing it
_poll_forgets(w, o) ==
  IF w.c[o]._close_pcb
  THEN Ret([w EXCEPT !.c[o]._close_pcb = FALSE], ERR_OK)
  ELSE Ret(PollCallback(w, o), ERR_OK)

\* AsyncClient::_poll
_poll(w, o) ==
  IF w.c[o]._close_pcb
  THEN Ret(_close([w EXCEPT !.c[o]._close_pcb = FALSE], o), ERR_OK)
  ELSE
    LET c       == w.c[o]
        elapsed == Wrap(millis - c._pcb_sent_at)
    IN  IF c._pcb_busy /\ c._ack_timeout # 0 /\ elapsed >= c._ack_timeout
        THEN Ret(Callback([w EXCEPT !.c[o]._pcb_busy = FALSE], o,
                          "onTimeout", elapsed, 0), ERR_OK)
        ELSE IF c._rx_since_timeout # 0
                /\ Wrap(millis - c._rx_last_packet)
                     >= Wrap(c._rx_since_timeout * MsPerSec)
        THEN Ret(_close(w, o), ERR_OK)
        ELSE Ret(PollCallback(w, o), ERR_OK)

\* AsyncClient::_dns_found; found is whether the resolver has an address.
_dns_found(w, o, found) ==
  IF found
  THEN connect(w, o)
  ELSE Callback(Callback(w, o, "onError", ERR_DNS, 0), o, "onDisconnect", 0, 0)

(***************************************************************************)
(* AsyncServer, listening.                                                 *)
(***************************************************************************)
\* AsyncServer::AsyncServer
NewServer == [_connect_cb |-> FALSE, _noDelay |-> FALSE]

tcp_nagle(w, h, disable) ==
  Emit(w, E("op", IF disable THEN "tcp_nagle_disable" ELSE "tcp_nagle_enable",
            h, 0, 0))

\* AsyncClient::AsyncClient(tcp_pcb* pcb) for a pcb that is not NULL: the
\* object o is built around handle h; rx0 is what _rx_ack_len happens to hold.
Wrap_pcb(w, o, h, rx0) ==
  tcp_callback(tcp_callback(tcp_callback(tcp_callback(
    tcp_arg([w EXCEPT !.c[o] = NewClient(h, rx0, {"wild"}, 1000, 0)], h, o),
    h, "recv", TRUE), h, "sent", TRUE), h, "err", TRUE), h, "poll", TRUE)

\* The accepted handle closed, aborted if the close fails.
Refuse(w, h) ==
  LET w1 == tcp_close(w, h)
  IN  Ret(IF w1.ret # ERR_OK THEN tcp_abort(w1, h) ELSE w1, ERR_OK)

\* _accept leaving the handle open when there is nobody to give it to
_accept_leave(w, h, made, rx0, cbs) ==
  IF w.srv._connect_cb /\ made # NULL
  THEN LET w1 == Wrap_pcb(tcp_nagle(w, h, w.srv._noDelay), made, h, rx0)
           w2 == Emit(w1, E("cb", "onClient", made, h, 0))
       IN  Ret([w2 EXCEPT !.c[made].cbs = cbs], ERR_OK)
  ELSE Ret(w, ERR_OK)

\* AsyncServer::_accept; made is the object that new AsyncClient(pcb) gives,
\* NULL when it gives none, and cbs the handlers the acceptance callback sets
\* on it.
_accept(w, h, made, rx0, cbs) ==
  LET w0 == IF w.srv._connect_cb THEN tcp_nagle(w, h, w.srv._noDelay) ELSE w
  IN  IF w.srv._connect_cb /\ made # NULL
      THEN LET w1 == Wrap_pcb(w0, made, h, rx0)
               w2 == Emit(w1, E("cb", "onClient", made, h, 0))
           IN  Ret([w2 EXCEPT !.c[made].cbs = cbs], ERR_OK)
      ELSE Refuse(w0, h)

(***************************************************************************)
(* Actions.  Each step starts from the current state, runs one whole       *)
(* method or callback, and leaves its transcript in out.                   *)
(***************************************************************************)
Commit(w) ==
  /\ client' = w.c
  /\ pcbs'   = w.p
  /\ dns'    = w.dns
  /\ out'    = w.out
  /\ server' = w.srv
  /\ rcvd'   = w.rcvd
  /\ UNCHANGED now

Begin(f, name, o, x, y) == Emit(World(f), E("call", name, o, x, y))

End(w, name, o) == Commit(Emit(w, E("ret", name, o, w.ret, 0)))

\* A step starts when the transcript of the step before it has been taken.
Idle == out = <<>>

Alive(o) == Idle /\ client[o].alive

\* The object a handle's callbacks are delivered to.
Target(h) == pcbs[h].arg

Connect(o) ==
  /\ Alive(o)
  /\ \E route \in BOOLEAN, alloc \in BOOLEAN :
       End(connect(Begin([AllOk EXCEPT !.route = route, !.alloc = alloc],
                         "connect", o, 0, 0), o),
           "connect", o)

ConnectHost(o) ==
  /\ Alive(o)
  /\ \E r \in {"ERR_OK", "ERR_INPROGRESS", "ERR_VAL"}, port \in Ports :
       /\ r = "ERR_INPROGRESS" => dns[o] < MaxDns
       /\ End(connectHost(Begin(AllOk, "connectHost", o, port, 0), o, port, r),
              "connectHost", o)

AssignOp(o, other) ==
  /\ Alive(o) /\ Alive(other)
  /\ \E ok \in BOOLEAN :
       End(Ret(Assign(Begin([AllOk EXCEPT !.close = ok], "operator=", o,
                            other, 0), o, other), 0),
           "operator=", o)

Abort(o) ==
  /\ Alive(o)
  /\ \E cb \in BOOLEAN :
       End(abort(Begin([AllOk EXCEPT !.abrt_cb = cb], "abort", o, 0, 0), o),
           "abort", o)

Close(o) ==
  /\ Alive(o)
  /\ \E immediate \in BOOLEAN, ok \in BOOLEAN :
       End(Ret(close(Begin([AllOk EXCEPT !.close = ok], "close", o,
                           B2N(immediate), 0), o, immediate), 0),
           "close", o)

Write(o) ==
  /\ Alive(o)
  /\ \E size \in WriteSizes, wr \in BOOLEAN, outp \in BOOLEAN :
       End(write(Begin([AllOk EXCEPT !.write = wr, !.output = outp],
                       "write", o, size, 0), o, size),
           "write", o)

Add(o) ==
  /\ Alive(o)
  /\ \E size \in WriteSizes, nonnull \in BOOLEAN, wr \in BOOLEAN :
       End(add(Begin([AllOk EXCEPT !.write = wr], "add", o, size, B2N(nonnull)),
               o, size, nonnull),
           "add", o)

Send(o) ==
  /\ Alive(o)
  /\ \E outp \in BOOLEAN :
       End(send(Begin([AllOk EXCEPT !.output = outp], "send", o, 0, B2N(outp)),
                o),
           "send", o)

Ack(o) ==
  /\ Alive(o)
  /\ \E n \in AckLens :
       End(ack(Begin(AllOk, "ack", o, n, 0), o, n), "ack", o)

\* AsyncClient::~AsyncClient
Destroy(o) ==
  /\ Alive(o)
  /\ \E ok \in BOOLEAN :
       LET w  == Begin([AllOk EXCEPT !.close = ok], "~AsyncClient", o, 0, 0)
           w1 == IF w.c[o]._pcb # NULL THEN _close(w, o) ELSE w
       IN  End(Ret([w1 EXCEPT !.c[o].alive = FALSE], 0), "~AsyncClient", o)

(***************************************************************************)
(* The transport's events: lwIP calls the callback registered on the       *)
(* handle with the handle's argument.                                      *)
(***************************************************************************)
Registered(h, name) ==
  /\ Idle
  /\ pcbs[h].alloc
  /\ name \in pcbs[h].cb
  /\ Target(h) # NULL
  /\ Alive(Target(h))

\* _s_connected: the connection attempt tcp_connect started has succeeded.
ConnectedEvt(h) ==
  /\ Idle
  /\ pcbs[h].alloc /\ pcbs[h].state = SYN_SENT
  /\ Target(h) # NULL /\ Alive(Target(h))
  /\ LET w == Begin(AllOk, "_connected", Target(h), h, 0)
     IN  End(_connected([w EXCEPT !.p[h].state = ESTABLISHED], Target(h), h),
             "_connected", Target(h))

\* _s_error: the handle is already freed when lwIP reports the error.
ErrorEvt(h) ==
  /\ Registered(h, "err")
  /\ \E err \in ErrCodes :
       LET w == Begin(AllOk, "_error", Target(h), h, err)
       IN  End(Ret(_error([w EXCEPT !.p[h] = FreePcb], Target(h), err), 0),
               "_error", Target(h))

Seg == [len : SegLens, call : HandlerCalls]

Chains == UNION {[1 .. n -> Seg] : n \in 1 .. MaxChain}

\* Deliveries of one pbuf whose handler calls nothing.
PlainChains == {<<[len |-> l, call |-> "none"]>> : l \in SegLens}

RECURSIVE ChainLen(_)
ChainLen(pb) == IF pb = <<>> THEN 0 ELSE Head(pb).len + ChainLen(Tail(pb))

\* _s_recv with data, the delivery drawn from chains
RecvOf(h, chains) ==
  /\ Registered(h, "recv") /\ pcbs[h].state = ESTABLISHED
  /\ \E pb \in chains :
       /\ h \in DOMAIN rcvd => rcvd[h].unacked + ChainLen(pb) <= RcvWnd
       /\ LET w0 == Begin(AllOk, "_recv", Target(h), h, ChainLen(pb))
              w  == _recv(tcp_deliver(w0, h, ChainLen(pb)), Target(h), h, pb)
          IN  /\ w.c[Target(h)]._rx_ack_len <= MaxBacklog
              /\ End(w, "_recv", Target(h))

RecvEvt(h) == RecvOf(h, Chains)

RecvPlainEvt(h) == RecvOf(h, PlainChains)

\* Deliveries whose handler at most opts out of the automatic acknowledgment.
LaterChains ==
  UNION {[1 .. n -> [len : SegLens, call : {"none", "ackLater"}]] :
           n \in 1 .. MaxChain}

RecvLaterEvt(h) == RecvOf(h, LaterChains)

\* _s_recv with no pbuf: the peer has closed.
PeerCloseEvt(h) ==
  /\ Registered(h, "recv") /\ pcbs[h].state = ESTABLISHED
  /\ \E ok \in BOOLEAN :
       LET w == Begin([AllOk EXCEPT !.close = ok], "_recv", Target(h), h, 0)
       IN  End(_recv([w EXCEPT !.p[h].state = CLOSE_WAIT], Target(h), h, <<>>),
               "_recv", Target(h))

\* _s_sent: the peer has acknowledged len bytes, which the window regains.
SentEvt(h) ==
  /\ Registered(h, "sent") /\ pcbs[h].state = ESTABLISHED
  /\ \E len \in SentLens :
       /\ pcbs[h].snd_buf + pcbs[h].unsent + len <= SndBuf
       /\ LET w == Begin(AllOk, "_sent", Target(h), h, len)
          IN  End(_sent([w EXCEPT !.p[h].snd_buf = @ + len], Target(h), len),
                  "_sent", Target(h))

\* _s_poll: the periodic tick
PollEvt(h) ==
  /\ Registered(h, "poll")
  /\ \E ok \in BOOLEAN :
       End(_poll(Begin([AllOk EXCEPT !.close = ok], "_poll", Target(h), h,
                       B2N(client[Target(h)]._close_pcb)),
                 Target(h)),
           "_poll", Target(h))

\* _s_dns_found
DnsFoundEvt(o) ==
  /\ Alive(o) /\ dns[o] > 0
  /\ \E found \in BOOLEAN, route \in BOOLEAN, alloc \in BOOLEAN :
       LET w == Begin([AllOk EXCEPT !.route = route, !.alloc = alloc],
                      "_dns_found", o, B2N(found), 0)
       IN  End(Ret(_dns_found([w EXCEPT !.dns[o] = @ - 1], o, found), 0),
               "_dns_found", o)

\* AsyncServer::onClient
OnClient ==
  /\ Idle
  /\ \E set \in BOOLEAN :
       LET w == Begin(AllOk, "onClient", NULL, B2N(set), 0)
       IN  End(Ret([w EXCEPT !.srv._connect_cb = set], 0), "onClient", NULL)

\* AsyncServer::setNoDelay
SetNoDelay ==
  /\ Idle
  /\ \E nodelay \in BOOLEAN :
       LET w == Begin(AllOk, "setNoDelay", NULL, B2N(nodelay), 0)
       IN  End(Ret([w EXCEPT !.srv._noDelay = nodelay], 0), "setNoDelay", NULL)

\* _s_accept: lwIP hands the listener a new established handle; new gives an
\* object, or NULL when there is no memory for one.
AcceptEvt ==
  /\ Idle
  /\ \E h \in Handle, made \in Obj \cup {NULL}, ok \in BOOLEAN,
        rx0 \in RxAckLenInit, cbs \in {AllCb} :
       /\ ~pcbs[h].alloc /\ \A g \in Handle : ~pcbs[g].alloc => h <= g
       /\ made # NULL =>
            ~client[made].alive /\ \A q \in Obj : ~client[q].alive => made <= q
       /\ LET w  == Begin([AllOk EXCEPT !.close = ok], "_accept", NULL, h,
                          B2N(made # NULL))
              w0 == IF h \in DOMAIN w.rcvd
                    THEN [w EXCEPT !.rcvd[h] = NewAccount] ELSE w
              w1 == [w0 EXCEPT !.p[h] = [FreePcb EXCEPT !.alloc = TRUE,
                                                       !.state = ESTABLISHED,
                                                       !.snd_buf = SndBuf]]
          IN  End(_accept(w1, h, made, rx0, cbs), "_accept", NULL)

\* A callback registered on a handle whose argument is a destroyed object.
UseAfterFree(h) ==
  /\ Idle
  /\ pcbs[h].alloc /\ pcbs[h].cb # {}
  /\ Target(h) # NULL /\ ~client[Target(h)].alive
  /\ out' = <<E("uaf", "callback", Target(h), h, 0)>>
  /\ UNCHANGED <<client, pcbs, dns, now, server, rcvd>>

\* millis() moves on.
Advance ==
  /\ Idle
  /\ now + AdvanceStep <= MaxAdvances * AdvanceStep
  /\ now' = now + AdvanceStep
  /\ UNCHANGED <<client, pcbs, dns, out, server, rcvd>>

\* The finished step's transcript is taken; the next step starts from idle.
Settle ==
  /\ ~Idle
  /\ out' = <<>>
  /\ UNCHANGED <<client, pcbs, dns, now, server, rcvd>>

(***************************************************************************)
(* Initial states: the objects in objs have just been constructed with no  *)
(* handle, _rx_ack_len holding whatever the memory held, and the           *)
(* application has set its handlers and timeouts.                          *)
(***************************************************************************)
InitOf(objs, rx0s, cbsets, ackTs, rxTs) ==
  /\ \E rx0 \in rx0s, cbs \in cbsets, ackT \in ackTs, rxT \in rxTs :
       client = [o \in Obj |-> IF o \in objs
                               THEN NewClient(NULL, rx0, cbs, ackT, rxT)
                               ELSE NoClient]
  /\ pcbs = [h \in Handle |-> FreePcb]
  /\ dns = [o \in Obj |-> 0]
  /\ now = 0
  /\ out = <<>>
  /\ server = NewServer
  /\ rcvd = <<>>

\* One object, its life cycle and its data path; the clock stands still, so
\* no timeout fires.
Init == InitOf({1}, RxAckLenInit, CbConfigs, {1000}, {0})

Next ==
  \/ \E o \in Obj : Connect(o)
  \/ \E o \in Obj, other \in Obj : AssignOp(o, other)
  \/ \E o \in Obj : Abort(o)
  \/ \E o \in Obj : Close(o)
  \/ \E o \in Obj : Write(o)
  \/ \E o \in Obj : Ack(o)
  \/ \E o \in Obj : Destroy(o)
  \/ \E h \in Handle : ConnectedEvt(h)
  \/ \E h \in Handle : ErrorEvt(h)
  \/ \E h \in Handle : RecvEvt(h)
  \/ \E h \in Handle : PeerCloseEvt(h)
  \/ \E h \in Handle : SentEvt(h)
  \/ \E h \in Handle : PollEvt(h)
  \/ \E h \in Handle : UseAfterFree(h)
  \/ Settle

Spec == Init /\ [][Next]_vars

\* One object under the clock: sends, confirmations, deliveries and ticks with
\* the two timeouts set or disabled.
InitTimed ==
  InitOf({1}, {0},
         {AllCb, (AllCb \ {"onTimeout", "onPoll"}) \cup {"wild"},
          AllCb \ {"onDisconnect", "onPoll"}},
         AckTimeouts, RxTimeouts)

NextTimed ==
  \/ \E o \in Obj : Connect(o)
  \/ \E o \in Obj : Close(o)
  \/ \E o \in Obj : Write(o)
  \/ \E h \in Handle : ConnectedEvt(h)
  \/ \E h \in Handle : RecvPlainEvt(h)
  \/ \E h \in Handle : SentEvt(h)
  \/ \E h \in Handle : PollEvt(h)
  \/ Advance
  \/ Settle

SpecTimed == InitTimed /\ [][NextTimed]_vars

\* Two objects and the handles they take, give and lose.
InitOwn == InitOf(Obj, {0}, {AllCb}, {1000}, {0})

NextOwn ==
  \/ \E o \in Obj : Connect(o)
  \/ \E o \in Obj : ConnectHost(o)
  \/ \E o \in Obj, other \in Obj : AssignOp(o, other)
  \/ \E o \in Obj : Close(o)
  \/ \E h \in Handle : ConnectedEvt(h)
  \/ \E h \in Handle : ErrorEvt(h)
  \/ \E o \in Obj : DnsFoundEvt(o)
  \/ Settle

SpecOwn == InitOwn /\ [][NextOwn]_vars

\* The listener: the handles it accepts, and the objects made from them until
\* they are closed.
InitSrv == InitOf({}, {0}, {AllCb}, {1000}, {0})

NextSrv ==
  \/ OnClient
  \/ SetNoDelay
  \/ AcceptEvt
  \/ \E o \in Obj : Close(o)
  \/ \E o \in Obj : Destroy(o)
  \/ \E h \in Handle : RecvPlainEvt(h)
  \/ \E h \in Handle : PeerCloseEvt(h)
  \/ \E h \in Handle : ErrorEvt(h)
  \/ \E h \in Handle : PollEvt(h)
  \/ Settle

SpecSrv == InitSrv /\ [][NextSrv]_vars

\* The send path: bytes queued with add and flushed with send or write.
InitSend == InitOf({1}, {0}, {AllCb}, {1000}, {0})

NextSend ==
  \/ \E o \in Obj : Connect(o)
  \/ \E o \in Obj : Add(o)
  \/ \E o \in Obj : Send(o)
  \/ \E o \in Obj : Write(o)
  \/ \E o \in Obj : Close(o)
  \/ \E h \in Handle : ConnectedEvt(h)
  \/ \E h \in Handle : SentEvt(h)
  \/ \E h \in Handle : ErrorEvt(h)
  \/ Settle

SpecSend == InitSend /\ [][NextSend]_vars

\* The receive path with the receive window's account kept for every handle.
InitAck ==
  /\ client = [o \in Obj |-> IF o = 1 THEN NewClient(NULL, 0, AllCb, 1000, 0)
                                      ELSE NoClient]
  /\ pcbs = [h \in Handle |-> FreePcb]
  /\ dns = [o \in Obj |-> 0]
  /\ now = 0
  /\ out = <<>>
  /\ server = NewServer
  /\ rcvd = [h \in Handle |-> NewAccount]

NextAck ==
  \/ \E o \in Obj : Connect(o)
  \/ \E o \in Obj : Ack(o)
  \/ \E o \in Obj : Close(o)
  \/ \E h \in Handle : ConnectedEvt(h)
  \/ \E h \in Handle : RecvLaterEvt(h)
  \/ \E h \in Handle : PeerCloseEvt(h)
  \/ \E h \in Handle : PollEvt(h)
  \/ Settle

SpecAck == InitAck /\ [][NextAck]_vars

\* Connecting, by address or by name, with the resolver and the transport
\* answering in the end: dns_gethostbyname calls _s_dns_found for every
\* request it took, and tcp_connect ends in _s_connected or in _s_error.
InitConn == InitOf({1}, {0}, {AllCb}, {1000}, {0})

NextConn ==
  \/ \E o \in Obj : Connect(o)
  \/ \E o \in Obj : ConnectHost(o)
  \/ \E o \in Obj : DnsFoundEvt(o)
  \/ \E h \in Handle : ConnectedEvt(h)
  \/ \E h \in Handle : ErrorEvt(h)
  \/ Settle

SpecConn ==
  /\ InitConn /\ [][NextConn]_vars
  /\ WF_vars(Settle)
  /\ \A o \in Obj : SF_vars(DnsFoundEvt(o))
  /\ \A h \in Handle : SF_vars(ConnectedEvt(h) \/ ErrorEvt(h))

\* The deferred close under the periodic tick: tcp_poll(_pcb, &_s_poll, 1) makes
\* lwIP call _s_poll again and again for as long as the handle is registered,
\* whatever else happens in between.
InitTick == InitOf({1}, {0}, {AllCb, AllCb \ {"onDisconnect"}}, {1000}, {0})

NextTick ==
  \/ \E o \in Obj : Connect(o)
  \/ \E o \in Obj : Close(o)
  \/ \E o \in Obj : Abort(o)
  \/ \E h \in Handle : ConnectedEvt(h)
  \/ \E h \in Handle : RecvPlainEvt(h)
  \/ \E h \in Handle : ErrorEvt(h)
  \/ \E h \in Handle : PollEvt(h)
  \/ Settle

SpecTick ==
  /\ InitTick /\ [][NextTick]_vars
  /\ WF_vars(Settle)
  /\ \A h \in Handle : SF_vars(PollEvt(h))

(***************************************************************************)
(* Reading a transcript.                                                   *)
(***************************************************************************)
Cbs(s) == SelectSeq(s, LAMBDA e : e.k = "cb")

Ops(s) == SelectSeq(s, LAMBDA e : e.k = "op")

CbNamed(s, name) == SelectSeq(s, LAMBDA e : e.k = "cb" /\ e.n = name)

OpNamed(s, name) == SelectSeq(s, LAMBDA e : e.k = "op" /\ e.n = name)

\* The step that leads to the primed state is the call name.
Step(name) == out = <<>> /\ out' # <<>> /\ out'[1].n = name

\* In a state: the step that has just finished is the call name.
Did(name) == out # <<>> /\ out[1].n = name

Returned(s) == s[Len(s)].x

Min(a, b) == IF a < b THEN a ELSE b

Max(a, b) == IF a < b THEN b ELSE a

(***************************************************************************)
(* C1.  Every step in which an object's handle goes from held to absent    *)
(* invokes onDisconnect exactly once, when the handler is set.             *)
(***************************************************************************)
C1_ReleaseNotifies ==
  [][\A o \in Obj :
       (client[o]._pcb # NULL /\ client'[o]._pcb = NULL
          /\ "onDisconnect" \in client[o].cbs)
       => Len(SelectSeq(out', LAMBDA e : e.k = "cb" /\ e.n = "onDisconnect"
                                          /\ e.o = o)) = 1]_vars

\* abort() has released a held handle.
C1_Witness ==
  /\ Did("abort")
  /\ OpNamed(out, "tcp_abort") # <<>>
  /\ client[out[1].o]._pcb = NULL

(***************************************************************************)
(* The periodic tick, seen from outside: the state before it, the state    *)
(* after it and its transcript.                                            *)
(***************************************************************************)
\* The step is a tick of the handle that object o holds.
TickOf(o) ==
  /\ Step("_poll") /\ out'[1].o = o
  /\ client[o]._pcb # NULL /\ out'[1].x = client[o]._pcb

Elapsed(o) == Wrap(now - client[o]._pcb_sent_at)

IdleMs(o) == Wrap(now - client[o]._rx_last_packet)

\* The tick closed the connection: handle released, onDisconnect and nothing
\* else invoked.
TickClosed(o) ==
  /\ client'[o]._pcb = NULL
  /\ ~pcbs'[client[o]._pcb].alloc
  /\ OpNamed(out', "tcp_close") # <<>>
  /\ client'[o]._pcb_busy = client[o]._pcb_busy
  /\ Cbs(out') = IF "onDisconnect" \in client[o].cbs
                 THEN <<E("cb", "onDisconnect", o, 0, 0)>> ELSE <<>>

\* The tick reported an ack timeout of e milliseconds: flag cleared, onTimeout
\* and nothing else invoked, the handle kept.
TickTimedOut(o, e) ==
  /\ client'[o]._pcb = client[o]._pcb
  /\ pcbs' = pcbs
  /\ client[o]._pcb_busy /\ ~client'[o]._pcb_busy
  /\ Ops(out') = <<>>
  /\ Cbs(out') = IF "onTimeout" \in client[o].cbs
                 THEN <<E("cb", "onTimeout", o, e, 0)>> ELSE <<>>

\* The tick did nothing but invoke onPoll, when that handler is set.
TickPolled(o) ==
  /\ client' = client
  /\ pcbs' = pcbs
  /\ Ops(out') = <<>>
  /\ Cbs(out') = IF "onPoll" \in client[o].cbs
                 THEN <<E("cb", "onPoll", o, 0, 0)>> ELSE <<>>

\* The four outcomes in their priority, ackDue and idleDue being the two
\* timeout conditions.
TickRule(o, ackDue, idleDue) ==
  IF client[o]._close_pcb THEN TickClosed(o) /\ ~client'[o]._close_pcb
  ELSE IF ackDue THEN TickTimedOut(o, Elapsed(o))
  ELSE IF idleDue THEN TickClosed(o)
  ELSE TickPolled(o)

(***************************************************************************)
(* C2.  A tick of a held handle has exactly one outcome, in this priority: *)
(* the pending deferred close is performed; else, when a send is in        *)
(* flight, _ack_timeout is nonzero and the time since the send exceeds it, *)
(* onTimeout is invoked and the in-flight flag cleared; else, when         *)
(* _rx_since_timeout is nonzero and the idle time exceeds it, the          *)
(* connection is closed; else onPoll, if set, is invoked and nothing else  *)
(* happens.                                                                *)
(***************************************************************************)
C2_TickExceeds ==
  [][\A o \in Obj :
       TickOf(o) =>
         TickRule(o,
           client[o]._pcb_busy /\ client[o]._ack_timeout # 0
             /\ Elapsed(o) > client[o]._ack_timeout,
           client[o]._rx_since_timeout # 0
             /\ IdleMs(o) > Wrap(client[o]._rx_since_timeout * MsPerSec))]_vars

\* A tick of an object that never had onPoll set has called through the
\* uninitialised _poll_cb.
C2_Witness ==
  /\ Did("_poll")
  /\ "onPoll" \notin client[out[1].o].cbs
  /\ CbNamed(out, "wild") # <<>>

(***************************************************************************)
(* C8.  A tick of a held handle with no deferred close pending, a send in  *)
(* flight, _ack_timeout = T > 0 and more than T elapsed since the send     *)
(* invokes onTimeout with the elapsed time, clears the in-flight flag and  *)
(* keeps the handle; a tick with no send in flight never invokes           *)
(* onTimeout; and only write or send marks a send in flight.               *)
(***************************************************************************)
C8_AckTimeout ==
  [][\A o \in Obj :
       /\ (TickOf(o) /\ ~client[o]._close_pcb /\ client[o]._pcb_busy
             /\ client[o]._ack_timeout > 0
             /\ Elapsed(o) > client[o]._ack_timeout)
          => TickTimedOut(o, Elapsed(o))
       /\ (Step("_poll") /\ out'[1].o = o /\ ~client[o]._pcb_busy)
          => CbNamed(out', "onTimeout") = <<>>
       /\ (~client[o]._pcb_busy /\ client'[o]._pcb_busy)
          => out'[1].n \in {"write", "send"}]_vars

\* onTimeout has been invoked with more than the timeout elapsed, and the
\* handle is still held with no send in flight.
C8_Witness ==
  /\ Did("_poll")
  /\ LET o == out[1].o
     IN  /\ client[o]._pcb # NULL /\ client[o]._pcb = out[1].x
         /\ ~client[o]._pcb_busy
         /\ \E i \in 1 .. Len(out) :
              /\ out[i] = E("cb", "onTimeout", o, out[i].x, 0)
              /\ out[i].x > client[o]._ack_timeout

(***************************************************************************)
(* C9, as stated.  With _rx_since_timeout = R > 0, a tick of a held handle *)
(* more than R seconds after _rx_last_packet closes the connection and     *)
(* invokes no onTimeout; and only an inbound delivery moves                *)
(* _rx_last_packet.                                                        *)
(***************************************************************************)
C9_IdleSinceData ==
  [][\A o \in Obj :
       /\ (TickOf(o) /\ client[o]._rx_since_timeout # 0
             /\ IdleMs(o) > Wrap(client[o]._rx_since_timeout * MsPerSec))
          => TickClosed(o)
       /\ client'[o]._rx_last_packet # client[o]._rx_last_packet
          => Step("_recv")]_vars

(***************************************************************************)
(* C9, amended.  With R > 0, a tick of a held handle at least R seconds    *)
(* after _rx_last_packet closes the connection and invokes no onTimeout,   *)
(* unless it reports an ack timeout instead; inbound deliveries and sent   *)
(* confirmations, and nothing else, set _rx_last_packet to the time they   *)
(* arrive.                                                                 *)
(***************************************************************************)
C9_IdleClose ==
  [][\A o \in Obj :
       /\ (TickOf(o) /\ client[o]._rx_since_timeout # 0
             /\ IdleMs(o) >= Wrap(client[o]._rx_since_timeout * MsPerSec)
             /\ ~(~client[o]._close_pcb /\ client[o]._pcb_busy
                    /\ client[o]._ack_timeout # 0
                    /\ Elapsed(o) >= client[o]._ack_timeout))
          => TickClosed(o)
       /\ client'[o]._rx_last_packet # client[o]._rx_last_packet
          => out'[1].n \in {"_recv", "_sent"}
       /\ (out = <<>> /\ out' # <<>> /\ out'[1].o = o
             /\ (out'[1].n = "_sent" \/ (out'[1].n = "_recv" /\ out'[1].y > 0)))
          => client'[o]._rx_last_packet = now]_vars

\* A tick with no deferred close pending has closed an idle connection.
C9_Witness ==
  /\ Did("_poll") /\ out[1].y = 0
  /\ OpNamed(out, "tcp_close") # <<>>
  /\ CbNamed(out, "onDisconnect") # <<>>
  /\ LET o == out[1].o
     IN  /\ client[o]._pcb = NULL
         /\ client[o]._rx_since_timeout # 0
         /\ Wrap(now - client[o]._rx_last_packet)
              >= Wrap(client[o]._rx_since_timeout * MsPerSec)

(***************************************************************************)
(* C3.  A fatal error reported by the transport leaves the object without  *)
(* a handle and the erring handle freed, and invokes onError with the      *)
(* code, when that handler is set, and then onDisconnect, when that one    *)
(* is set: nothing else, and in this order.                                *)
(***************************************************************************)
C3_ErrorThenDisconnect ==
  Did("_error") =>
    LET o   == out[1].o
        h   == out[1].x
        err == out[1].y
    IN  /\ client[o]._pcb = NULL
        /\ ~pcbs[h].alloc
        /\ Cbs(out) =
             (IF "onError" \in client[o].cbs
              THEN <<E("cb", "onError", o, err, 0)>> ELSE <<>>)
             \o (IF "onDisconnect" \in client[o].cbs
                 THEN <<E("cb", "onDisconnect", o, 0, 0)>> ELSE <<>>)

\* An error has been reported to an object that has no onError handler, and
\* onDisconnect has been invoked.
C3_Witness ==
  /\ Did("_error")
  /\ "onError" \notin client[out[1].o].cbs
  /\ CbNamed(out, "onDisconnect") # <<>>

(***************************************************************************)
(* C4.  No object is the callback argument of two live handles, and no     *)
(* handle is held by two objects.                                          *)
(***************************************************************************)
C4_OneHandleOneObject ==
  /\ \A o \in Obj :
       Cardinality({h \in Handle : pcbs[h].alloc /\ pcbs[h].arg = o}) <= 1
  /\ \A h \in Handle :
       Cardinality({o \in Obj : client[o].alive /\ client[o]._pcb = h}) <= 1

\* Two objects hold the same handle.
C4_Witness ==
  \E h \in Handle : \A o \in Obj : client[o].alive /\ client[o]._pcb = h

(***************************************************************************)
(* Reading a delivery's transcript pbuf by pbuf: an onData record opens    *)
(* the section of its pbuf, which runs to the next onData record or to the *)
(* end of the call.                                                        *)
(***************************************************************************)
RECURSIVE SumX(_)
SumX(s) == IF s = <<>> THEN 0 ELSE Head(s).x + SumX(Tail(s))

DataAt(s) == {i \in 1 .. Len(s) : s[i].k = "cb" /\ s[i].n = "onData"}

LeastOf(S) == CHOOSE x \in S : \A y \in S : x <= y

Section(s, i) ==
  SubSeq(s, i + 1, LeastOf({j \in DataAt(s) : j > i} \cup {Len(s)}) - 1)

Called(s, n) == SelectSeq(s, LAMBDA e : e.k = "call" /\ e.n = n)

\* What the calls to ack made from inside the handlers returned.
AckedInside(s) ==
  SelectSeq(SubSeq(s, 2, Len(s) - 1), LAMBDA e : e.k = "ret" /\ e.n = "ack")

\* The onData records of the pbufs whose handler cleared the auto-ack flag.
RECURSIVE OptedOut(_, _)
OptedOut(s, i) ==
  IF i > Len(s) THEN <<>>
  ELSE (IF i \in DataAt(s) /\ Called(Section(s, i), "ackLater") # <<>>
        THEN <<s[i]>> ELSE <<>>) \o OptedOut(s, i + 1)

\* A delivery of data to object o, which has an onData handler that does not
\* close the connection.
DeliveryTo(o) ==
  /\ Step("_recv") /\ out'[1].o = o
  /\ DataAt(out') # {}
  /\ Called(SubSeq(out', 2, Len(out')), "close") = <<>>

(***************************************************************************)
(* C5, as stated.  On a delivery of one pbuf of L bytes: if the onData     *)
(* handler calls ack(0), nothing is acknowledged to the transport and      *)
(* _rx_ack_len grows by L; if the handler calls nothing, exactly L bytes   *)
(* are acknowledged after it returns and _rx_ack_len is unchanged.         *)
(***************************************************************************)
C5_AckZeroOptsOut ==
  [][\A o \in Obj :
       (DeliveryTo(o) /\ Cardinality(DataAt(out')) = 1) =>
         LET s == out'
             L == s[2].x
         IN  IF Called(Section(s, 2), "ack") = <<E("call", "ack", o, 0, 0)>>
             THEN /\ OpNamed(s, "tcp_recved") = <<>>
                  /\ client'[o]._rx_ack_len = client[o]._rx_ack_len + L
             ELSE Section(s, 2) = <<E("op", "tcp_recved", s[1].x, L, 0)>>
                  => client'[o]._rx_ack_len = client[o]._rx_ack_len]_vars

(***************************************************************************)
(* C5, amended.  On a delivery, for each pbuf of L bytes handed to onData: *)
(* if the handler cleared the auto-ack flag, nothing is acknowledged for   *)
(* the pbuf; otherwise - and a handler that calls ack(n), n = 0 included,  *)
(* has not cleared it - exactly L bytes are acknowledged right after the   *)
(* handler returns.  Over the delivery _rx_ack_len grows by the lengths of *)
(* the pbufs opted out of, less what the handlers' own calls to ack        *)
(* acknowledged.                                                           *)
(***************************************************************************)
C5_AutoAck ==
  [][\A o \in Obj :
       DeliveryTo(o) =>
         LET s == out'
         IN  /\ \A i \in DataAt(s) :
                  LET sec == Section(s, i)
                  IN  IF Called(sec, "ackLater") # <<>>
                      THEN OpNamed(sec, "tcp_recved") = <<>>
                      ELSE /\ sec # <<>>
                           /\ sec[Len(sec)]
                                = E("op", "tcp_recved", s[1].x, s[i].x, 0)
                           /\ SumX(OpNamed(sec, "tcp_recved"))
                                = s[i].x + SumX(AckedInside(sec \o <<s[i]>>))
             /\ client'[o]._rx_ack_len
                  = client[o]._rx_ack_len + SumX(OptedOut(s, 1))
                      - SumX(AckedInside(s))]_vars

\* A 40-byte pbuf whose handler called ack(0) has been acknowledged in full.
C5_Witness ==
  /\ Did("_recv")
  /\ \E i \in DataAt(out) :
       /\ out[i].x = 40
       /\ Section(out, i) = << E("call", "ack", out[1].o, 0, 0),
                               E("ret", "ack", out[1].o, 0, 0),
                               E("op", "tcp_recved", out[1].x, 40, 0) >>

(***************************************************************************)
(* C6.  ack(n) with a backlog of B returns min(n, B), leaves _rx_ack_len   *)
(* at max(0, B - n) and acknowledges min(n, B) bytes to the transport in   *)
(* one call on _pcb, made only when that amount is not zero; _rx_ack_len   *)
(* is never negative.                                                      *)
(***************************************************************************)
C6_AckClamps ==
  [][\A o \in Obj :
       /\ client'[o]._rx_ack_len >= 0
       /\ (Step("ack") /\ out'[1].o = o) =>
            LET B == client[o]._rx_ack_len
                n == out'[1].x
                m == Min(n, B)
            IN  /\ Returned(out') = m
                /\ client'[o]._rx_ack_len = Max(0, B - n)
                /\ Ops(out') = IF m > 0
                               THEN <<E("op", "tcp_recved", client[o]._pcb, m, 0)>>
                               ELSE <<>>]_vars

\* ack has been called on a held handle for more than the backlog and has
\* returned the backlog, which is now empty.
C6_Witness ==
  /\ Did("ack")
  /\ client[out[1].o]._pcb # NULL
  /\ Returned(out) > 0 /\ out[1].x > Returned(out)
  /\ client[out[1].o]._rx_ack_len = 0
  /\ OpNamed(out, "tcp_recved") # <<>>

\* A write to an established handle, every transport call of which succeeded.
WriteTo(o) ==
  /\ Step("write") /\ out'[1].o = o
  /\ client[o]._pcb # NULL
  /\ pcbs[client[o]._pcb].state = ESTABLISHED
  /\ \A i \in 1 .. Len(out') : out'[i].k = "op" => out'[i].y = 1

\* No write returns more than it was asked for or hands the transport more
\* than the window.
WriteBounded(o) ==
  (Step("write") /\ out'[1].o = o) =>
    /\ Returned(out') <= out'[1].x
    /\ \/ OpNamed(out', "tcp_write") = <<>>
       \/ /\ client[o]._pcb # NULL
          /\ SumX(OpNamed(out', "tcp_write")) <= pcbs[client[o]._pcb].snd_buf

C10_SecondCloseNoEffect ==
  [][\A o \in Obj :
       (Step("close") /\ out'[1].o = o /\ out'[1].x = 1) =>
         IF client[o]._pcb # NULL
         THEN /\ client'[o]._pcb = NULL
              /\ Cbs(out') = IF "onDisconnect" \in client[o].cbs
                             THEN <<E("cb", "onDisconnect", o, 0, 0)>>
                             ELSE <<>>
         ELSE /\ client' = client /\ pcbs' = pcbs
              /\ Ops(out') = <<>>
              /\ Cbs(out') = <<>>]_vars

\* close(true) on an object with no handle has called the transport.
C10_Witness ==
  /\ Did("close") /\ out[1].x = 1
  /\ client[out[1].o]._pcb = NULL
  /\ Cbs(out) = <<>>
  /\ \E i \in 1 .. Len(out) :
       out[i].k = "op" /\ out[i].n = "tcp_recved" /\ out[i].o = NULL

(***************************************************************************)
(* C11.  When the resolver reports that the name of a connect(host, port)  *)
(* could not be resolved, the object is given one onError with the         *)
(* resolution-failure code and then one onDisconnect, no onConnect, and    *)
(* holds no handle afterwards.                                             *)
(***************************************************************************)
C11_ResolutionFailure ==
  [][\A o \in Obj :
       (Step("_dns_found") /\ out'[1].o = o /\ out'[1].x = B2N(FALSE)) =>
         /\ Cbs(out') =
              (IF "onError" \in client[o].cbs
               THEN <<E("cb", "onError", o, ERR_DNS, 0)>> ELSE <<>>)
              \o (IF "onDisconnect" \in client[o].cbs
                  THEN <<E("cb", "onDisconnect", o, 0, 0)>> ELSE <<>>)
         /\ client'[o]._pcb = NULL]_vars

\* A failed resolution has been reported with onDisconnect to an object that
\* holds a handle.
C11_Witness ==
  /\ Did("_dns_found") /\ out[1].x = B2N(FALSE)
  /\ CbNamed(out, "onDisconnect") # <<>>
  /\ client[out[1].o]._pcb # NULL

\* The states a handle can be in, and the object o holding handle h in state
\* st with a free window of room.
PcbStates == {CLOSED, SYN_SENT, ESTABLISHED, CLOSE_WAIT}

Holding(o, h, st, room) ==
  [World(AllOk) EXCEPT !.c[o]._pcb = h,
                       !.p[h] = [alloc |-> TRUE, state |-> st, arg |-> o,
                                 cb |-> {}, snd_buf |-> room]]

(***************************************************************************)
(* C12.  In every state an object with no handle reports state() = 0       *)
(* (closed) and canSend() false, and canSend() is true exactly when the    *)
(* handle held is established and its free send window is not zero -       *)
(* whatever state and window the handle held is in.                        *)
(***************************************************************************)
C12_StateAndCanSend ==
  \A o \in Obj :
    client[o].alive =>
      /\ client[o]._pcb = NULL =>
           state(World(AllOk), o) = CLOSED /\ ~canSend(World(AllOk), o)
      /\ canSend(World(AllOk), o)
           <=> /\ client[o]._pcb # NULL
               /\ pcbs[client[o]._pcb].state = ESTABLISHED
               /\ pcbs[client[o]._pcb].snd_buf # 0
      /\ \A h \in Handle, st \in PcbStates, room \in {0, SndBuf} :
           /\ canSend(Holding(o, h, st, room), o)
                <=> (st = ESTABLISHED /\ room # 0)
           /\ state(Holding(o, h, st, room), o) = st

\* An established handle is held with its send window used up: canSend() is
\* false.
C12_Witness ==
  \E o \in Obj :
    /\ client[o].alive /\ client[o]._pcb # NULL
    /\ pcbs[client[o]._pcb].state = ESTABLISHED
    /\ pcbs[client[o]._pcb].snd_buf = 0
    /\ ~canSend(World(AllOk), o)

\* Handle h is allocated and its connect has not completed.
Connecting(p, h) == p[h].alloc /\ p[h].state = SYN_SENT

(***************************************************************************)
(* C13.  Within the lifetime of a handle onConnect is never invoked after  *)
(* onDisconnect.  Step by step: onConnect is invoked only by the           *)
(* connect-completion of a handle that is still connecting, and before     *)
(* anything else in that step; a handle that is no longer connecting is    *)
(* never connecting again before it is freed; and a step that delivers     *)
(* onDisconnect to an object for a handle - the live handle the object     *)
(* holds and is the argument of, or the one the transport reports the      *)
(* error on - leaves that handle no longer connecting.                     *)
(***************************************************************************)
C13_NoConnectAfterDisconnect ==
  [][\A h \in Handle :
       /\ CbNamed(out', "onConnect") # <<>> =>
            /\ Step("_connected")
            /\ Connecting(pcbs, out'[1].x)
            /\ CbNamed(out', "onDisconnect") = <<>>
       /\ (pcbs[h].alloc /\ ~Connecting(pcbs, h)) => ~Connecting(pcbs', h)
       /\ \A o \in Obj :
            (out = <<>> /\ out' # <<>> /\ out'[1].o = o
               /\ CbNamed(out', "onDisconnect") # <<>>
               /\ ((client[o]._pcb = h /\ pcbs[h].alloc /\ pcbs[h].arg = o)
                     \/ (out'[1].n = "_error" /\ out'[1].x = h)))
            => ~Connecting(pcbs', h)]_vars

\* An error on one handle has been reported with onDisconnect to an object
\* that has another handle still connecting: the onConnect that will follow
\* is that of the other handle.
C13_Witness ==
  /\ Did("_error")
  /\ CbNamed(out, "onDisconnect") # <<>>
  /\ ~pcbs[out[1].x].alloc
  /\ \E h \in Handle : Connecting(pcbs, h) /\ pcbs[h].arg = out[1].o

(***************************************************************************)
(* C14.  Every handle the listener accepts ends in one of two ways.  With   *)
(* an acceptance callback set, the Nagle preference is applied, one new     *)
(* object wrapping the handle is created and the callback is invoked once   *)
(* with it.  With none set, the handle is closed at once (aborted if the    *)
(* close fails) and no object is created.  No accepted handle stays open    *)
(* without an owner.                                                        *)
(***************************************************************************)
Created == {o \in Obj : ~client[o].alive /\ client'[o].alive}

NagleOp(h) ==
  E("op", IF server._noDelay THEN "tcp_nagle_disable" ELSE "tcp_nagle_enable",
    h, 0, 0)

\* The handle given to one new object, and that object to the callback.
Adopted(h) ==
  /\ Ops(out') = <<NagleOp(h)>>
  /\ \E o \in Obj :
       /\ Created = {o}
       /\ client'[o]._pcb = h
       /\ pcbs'[h].alloc /\ pcbs'[h].arg = o
       /\ Cbs(out') = <<E("cb", "onClient", o, h, 0)>>

\* The handle closed, aborted when the close failed; nobody told.
Refused(h, nagle) ==
  /\ Created = {}
  /\ Cbs(out') = <<>>
  /\ ~pcbs'[h].alloc
  /\ \/ Ops(out') = nagle \o <<E("op", "tcp_close", h, 0, B2N(TRUE))>>
     \/ Ops(out') = nagle \o <<E("op", "tcp_close", h, 0, B2N(FALSE)),
                               E("op", "tcp_abort", h, 0, 0)>>

Owned(h) == \E o \in Obj : client'[o].alive /\ client'[o]._pcb = h

\* C14 as stated: a callback set always gets an object; otherwise the handle
\* is just closed.
C14_AcceptTwoOutcomes ==
  [][Step("_accept") =>
       LET h == out'[1].x
       IN  /\ IF server._connect_cb THEN Adopted(h) ELSE Refused(h, <<>>)
           /\ pcbs'[h].alloc => Owned(h)]_vars

\* C14 amended: the first outcome needs the object to be allocated as well;
\* when it cannot be, the handle is closed after the Nagle preference was
\* applied, and the callback is not invoked.  No accepted handle stays open
\* without an owner.
C14_AcceptOutcomes ==
  [][Step("_accept") =>
       LET h == out'[1].x
       IN  /\ IF server._connect_cb
              THEN IF out'[1].y = B2N(TRUE)
                   THEN Adopted(h)
                   ELSE Refused(h, <<NagleOp(h)>>)
              ELSE Refused(h, <<>>)
           /\ pcbs'[h].alloc => Owned(h)
           /\ out'[Len(out')].x = ERR_OK]_vars

C14_Witness ==
  /\ Did("_accept")
  /\ server._connect_cb
  /\ out[1].y = B2N(FALSE)
  /\ OpNamed(out, "tcp_close") # <<>>
  /\ CbNamed(out, "onClient") = <<>>
  /\ ~pcbs[out[1].x].alloc

(***************************************************************************)
(* C15.  send() forces out everything add() has queued: when bytes queued   *)
(* by add() on an established handle are not yet flushed and the            *)
(* transport's flush succeeds, the next send() returns true, transmits      *)
(* them and marks a send in flight stamped with the current time; send()    *)
(* returns false only when there is nothing it can flush or the flush       *)
(* fails.                                                                   *)
(***************************************************************************)
\* The bytes queued on the handle object o holds and not yet flushed.
Queued(o) ==
  LET h == client[o]._pcb
  IN  IF h # NULL /\ pcbs[h].alloc /\ pcbs[h].state = ESTABLISHED
      THEN pcbs[h].unsent ELSE 0

C15_SendFlushesQueued ==
  [][\A o \in Obj :
       (Step("send") /\ out'[1].o = o) =>
         LET h       == client[o]._pcb
             flushOk == out'[1].y = B2N(TRUE)
             ret     == out'[Len(out')].x
         IN  /\ (Queued(o) > 0 /\ flushOk) =>
                  /\ ret = B2N(TRUE)
                  /\ OpNamed(out', "tcp_output") = <<E("op", "tcp_output", h, 0, 1)>>
                  /\ pcbs'[h].unsent = 0
                  /\ client'[o]._pcb_busy
                  /\ client'[o]._pcb_sent_at = now
             /\ ret = B2N(FALSE) => (Queued(o) = 0 \/ ~flushOk)]_vars

C15_Witness ==
  /\ Did("send")
  /\ out[1].y = B2N(TRUE)
  /\ out[Len(out)].x = B2N(FALSE)
  /\ Queued(out[1].o) > 0
  /\ Ops(out) = <<>>

(***************************************************************************)
(* C16.  close(false), and so stop(), on a held handle neither releases the *)
(* handle nor invokes onDisconnect during the call.  With ticks arriving,   *)
(* the handle is eventually released and onDisconnect invoked exactly once, *)
(* at the latest on the next tick, and that tick invokes neither onTimeout  *)
(* nor onPoll.                                                              *)
(***************************************************************************)
Held(o, h) == h # NULL /\ client[o]._pcb = h /\ pcbs[h].alloc

\* The call itself leaves the handle alone and requests the close.
DeferredCall(o, h) ==
  (Step("close") /\ out'[1].o = o /\ out'[1].x = B2N(FALSE) /\ Held(o, h)) =>
    /\ client'[o]._pcb = h
    /\ pcbs' = pcbs
    /\ Cbs(out') = <<>>
    /\ client'[o]._close_pcb

\* The request stays for as long as the handle is held.
RequestStays(o, h) ==
  (client[o]._close_pcb /\ Held(o, h)) =>
    (client'[o]._close_pcb \/ client'[o]._pcb # h \/ ~pcbs'[h].alloc)

\* The tick that finds the request releases the handle and notifies once.
ClosingTick(o, h) ==
  (Step("_poll") /\ out'[1].o = o /\ client[o]._close_pcb /\ Held(o, h)) =>
    /\ client'[o]._pcb = NULL
    /\ ~pcbs'[h].alloc
    /\ Cbs(out') = IF "onDisconnect" \in client[o].cbs
                   THEN <<E("cb", "onDisconnect", o, 0, 0)>> ELSE <<>>

\* A close is requested on a handle that is still held.
Pending == \E o \in Obj, h \in Handle : client[o]._close_pcb /\ Held(o, h)

C17_NoDoubleAck == \A h \in DOMAIN rcvd : ~rcvd[h].overacked

C17_Witness ==
  /\ Did("ack")
  /\ client[out[1].o]._pcb \in DOMAIN rcvd
  /\ pcbs[client[out[1].o]._pcb].alloc
  /\ rcvd[client[out[1].o]._pcb].overacked
  /\ OpNamed(out, "tcp_recved") # <<>>

(***************************************************************************)
(* C18.  A deferred close request applies only to the handle held when      *)
(* close(false) was called.  If that handle is released by another path     *)
(* before the next tick, or no handle was held, the request does not        *)
(* survive: a handle connected later is never torn down on its first tick   *)
(* by a request left over from before.                                      *)
(***************************************************************************)
C18_RequestDiesWithHandle ==
  [][\A o \in Obj :
       /\ (client'[o].alive /\ client'[o]._close_pcb) => client'[o]._pcb # NULL
       /\ (Step("_connected") /\ out'[1].o = o) => ~client'[o]._close_pcb]_vars

C18_Witness ==
  /\ Did("_connected")
  /\ client[out[1].o]._pcb = out[1].x
  /\ pcbs[out[1].x].alloc
  /\ "poll" \in pcbs[out[1].x].cb
  /\ client[out[1].o]._close_pcb

(***************************************************************************)
(* C19.  Once a handle has been released and onDisconnect invoked, no       *)
(* further onData is invoked for that handle and no further transport       *)
(* operation is issued on it.  This includes close(true) called by the      *)
(* application from inside onData during a delivery of several chained      *)
(* segments, and close called on an object that holds no handle.            *)
(***************************************************************************)
\* In transcript s, record i is the onDisconnect that follows the release of
\* handle h.
ReleasedAt(s, i, h) ==
  /\ s[i].k = "cb" /\ s[i].n = "onDisconnect"
  /\ \E k \in 1 .. i - 1 :
       s[k].k = "op" /\ s[k].n \in {"tcp_close", "tcp_abort"} /\ s[k].o = h

\* In transcript s, record j delivers data or operates on handle h.
StillUsed(s, j, h) ==
  \/ s[j].k = "cb" /\ s[j].n = "onData"
  \/ s[j].k = "op" /\ s[j].o = h

C19_NothingAfterRelease ==
  [][/\ \A h \in Handle : \A i \in 1 .. Len(out'), j \in 1 .. Len(out') :
          (out = <<>> /\ i < j /\ ReleasedAt(out', i, h)) => ~StillUsed(out', j, h)
     /\ \A o \in Obj :
          (Step("close") /\ out'[1].o = o /\ client[o]._pcb = NULL) =>
            Ops(out') = <<>>]_vars

C19_Witness ==
  /\ Did("_recv")
  /\ \E i \in 1 .. Len(out), j \in 1 .. Len(out) :
       /\ i < j
       /\ ReleasedAt(out, i, out[1].x)
       /\ out[j].k = "cb" /\ out[j].n = "onData"
  /\ \E i \in 1 .. Len(out), j \in 1 .. Len(out) :
       /\ i < j
       /\ ReleasedAt(out, i, out[1].x)
       /\ out[j].k = "op" /\ out[j].n = "tcp_recved" /\ out[j].o = out[1].x

(***************************************************************************)
(* C20.  Every connect call that returned true is eventually answered, by   *)
(* onConnect or by onDisconnect, provided the resolver and the transport    *)
(* eventually deliver their events.  No accepted connect request ends with  *)
(* the object holding no handle and no callback ever fired.                 *)
(***************************************************************************)
Accepted ==
  /\ Did("connect") \/ Did("connectHost")
  /\ out[Len(out)].x = B2N(TRUE)

Answered ==
  CbNamed(out, "onConnect") # <<>> \/ CbNamed(out, "onDisconnect") # <<>>

C20_ConnectAnswered == Accepted ~> Answered

\* The resolver has answered with an address, nothing was reported, and the
\* object has no handle, none on the way, and no resolution pending.
C20_Witness ==
  /\ Did("_dns_found")
  /\ out[1].x = B2N(TRUE)
  /\ Cbs(out) = <<>>
  /\ client[out[1].o]._pcb = NULL
  /\ dns[out[1].o] = 0
  /\ \A h \in Handle : ~(pcbs[h].alloc /\ pcbs[h].arg = out[1].o)

====
